---- MODULE Spec2Model ----
(***************************************************************************)
(* waterapputils_viewer.py: printing and plotting of WATER output data.    *)
(*                                                                         *)
(* The module's five entry points (print_watertxt_data,                    *)
(* plot_watertxt_data, plot_watertxt_comparison, print_deltas_data,        *)
(* plot_deltas_data) are modelled as calls of a driver on data it holds.   *)
(* The state is what the calls can touch: the data dictionaries, pyplot's  *)
(* list of open figures, the files of the save directory, the figures      *)
(* displayed, standard output, and the position inside the running call.   *)
(* Text is kept as text: names, titles and file names are strings and the  *)
(* substring tests, the split at "(" and the path join are computed on     *)
(* them.  Sample values are integers (the fixture's values are integral or *)
(* scaled to be).                                                          *)
(***************************************************************************)
EXTENDS Integers, Sequences, FiniteSets, TLC

VARIABLES
    heap,        \* the driver's data: d1, d2 (WATER.txt dictionaries), dd (deltas dictionary)
    is_visible,  \* the is_visible argument the driver passes
    save_path,   \* the save_path argument the driver passes: <<>> is None, <<s>> the string s
    pc,          \* position in the running call: "idle" when no call runs
    frame,       \* the running call's locals
    figures,     \* pyplot's open figures, oldest first; the last one is the current figure
    files,       \* the file system under the save directories: path -> image written
    shown,       \* the figures plt.show() has displayed, in order
    stdout,      \* the lines printed, in order
    calls        \* the finished calls, in order: what each was given and how it ended

vars == <<heap, is_visible, save_path, pc, frame, figures, files, shown, stdout, calls>>

---------------------------------------------------------------------------
(* Bounds of the model *)

\* calls the driver makes in one run
MaxCalls == 2

\* tiles of the largest deltas dictionary (the palette has 8 colours)
MaxTiles == 10

---------------------------------------------------------------------------
(* Python's string operations, computed on the text *)

\* `kw in s`
Contains(kw, s) ==
    \E i \in 1..(Len(s) - Len(kw) + 1) : SubSeq(s, i, i + Len(kw) - 1) = kw

\* s.find(ch) + 1 for a one-character ch: the first position of ch in s, 0 when absent
FindFirst(ch, s) ==
    IF Contains(ch, s)
    THEN CHOOSE i \in 1..Len(s) :
            /\ SubSeq(s, i, i) = ch
            /\ \A j \in 1..(i - 1) : SubSeq(s, j, j) # ch
    ELSE 0

\* s.rfind(ch) + 1: the last position of ch in s, 0 when absent
FindLast(ch, s) ==
    IF Contains(ch, s)
    THEN CHOOSE i \in 1..Len(s) :
            /\ SubSeq(s, i, i) = ch
            /\ \A j \in (i + 1)..Len(s) : SubSeq(s, j, j) # ch
    ELSE 0

\* s.split(sep)[0]: the text before the first sep, all of s when there is none
SplitHead(s, sep) ==
    IF FindFirst(sep, s) = 0 THEN s ELSE SubSeq(s, 1, FindFirst(sep, s) - 1)

\* "-".join(parts)
RECURSIVE JoinDash(_)
JoinDash(parts) ==
    IF parts = <<>> THEN ""
    ELSE IF Len(parts) = 1 THEN parts[1]
    ELSE parts[1] \o "-" \o JoinDash(Tail(parts))

\* os.path.join(a, b) on posix
PathJoin(a, b) ==
    IF Len(b) > 0 /\ SubSeq(b, 1, 1) = "/" THEN b
    ELSE IF a = "" \/ SubSeq(a, Len(a), Len(a)) = "/" THEN a \o b
    ELSE a \o "/" \o b

\* os.path.dirname(p): the text before the last "/"
DirName(p) ==
    IF FindLast("/", p) = 0 THEN "" ELSE SubSeq(p, 1, FindLast("/", p) - 1)

\* width of textwrap.wrap(name, 60)
WrapWidth == 60

\* the last position <= WrapWidth + 1 of a space in s, 0 when there is none
BreakAt(s) ==
    IF \E i \in 1..(WrapWidth + 1) : i <= Len(s) /\ SubSeq(s, i, i) = " "
    THEN CHOOSE i \in 1..(WrapWidth + 1) :
            /\ i <= Len(s) /\ SubSeq(s, i, i) = " "
            /\ \A j \in (i + 1)..(WrapWidth + 1) : j <= Len(s) => SubSeq(s, j, j) # " "
    ELSE 0

\* "\n".join(wrap(s, 60)) for text of single-spaced words: lines of at most 60
\* characters broken at spaces, a longer word cut at 60
RECURSIVE WrapJoin(_)
WrapJoin(s) ==
    IF Len(s) <= WrapWidth THEN s
    ELSE IF BreakAt(s) > 1
         THEN SubSeq(s, 1, BreakAt(s) - 1) \o "\n" \o WrapJoin(SubSeq(s, BreakAt(s) + 1, Len(s)))
         ELSE SubSeq(s, 1, WrapWidth) \o "\n" \o WrapJoin(SubSeq(s, WrapWidth + 1, Len(s)))

---------------------------------------------------------------------------
(* Sequences of numbers *)

Range(s) == {s[i] : i \in DOMAIN s}

Min2(a, b) == IF a <= b THEN a ELSE b

RECURSIVE SumSeq(_)
SumSeq(s) == IF s = <<>> THEN 0 ELSE Head(s) + SumSeq(Tail(s))

\* np.mean, np.max, np.min of the fixture's arrays (their means are integral)
NpMean(s) == SumSeq(s) \div Len(s)

NpMax(s) == CHOOSE v \in Range(s) : \A w \in Range(s) : w <= v

NpMin(s) == CHOOSE v \in Range(s) : \A w \in Range(s) : v <= w

\* array * multiplicative_factor
Scale(s, factor) == [i \in DOMAIN s |-> s[i] * factor]

\* parameter2["data"] - parameter1["data"] on arrays of one length
ArraySub(a, b) == [i \in DOMAIN a |-> a[i] - b[i]]

---------------------------------------------------------------------------
(* The data dictionaries.  Values are in tenths, so the fixture's 0.1 is 1. *)

\* the fixture's parameter names, in order
FixtureNames ==
    << "Discharge (cfs)", "Subsurface Flow (mm/day)", "Impervious Flow (mm/day)",
       "Infiltration Excess (mm/day)", "Initial Abstracted Flow (mm/day)",
       "Overland Flow (mm/day)", "PET (mm/day)", "AET (mm/day)",
       "Average Soil Root zone (mm)", "Average Soil Unsaturated Zone (mm)",
       "Snow Pack (mm)", "Precipitation (mm/day)", "Storage Deficit (mm/day)",
       "Return Flow (mm/day)" >>

\* the fixture's arrays, in the same order
FixtureArrays ==
    << <<0, 50, 100>>, <<500, 550, 450>>, <<20, 80, 20>>, <<0, 15, 15>>,
       <<1, 2, 3>>, <<30, 90, 30>>, <<50, 130, 30>>, <<50, 120, 130>>,
       <<400, 500, 600>>, <<40, 30, 20>>, <<1500, 1250, 250>>, <<5, 4, 3>>,
       <<3000, 3100, 3500>>, <<-50, -45, -40>> >>

\* the fixture's dates: 1, 2 and 3 April 2014, as day numbers
FixtureDates == <<1, 2, 3>>

\* the k-th fixture array, cut or repeated to n samples
Samples(k, n) == [j \in 1..n |-> FixtureArrays[k][((j - 1) % 3) + 1]]

\* one parameter dictionary, its statistics computed from its data
Parameter(name, index, data) ==
    [name |-> name, index |-> index, data |-> data,
     mean |-> NpMean(data), max |-> NpMax(data), min |-> NpMin(data)]

\* a WATER.txt dictionary of the fixture's shape over the given names and dates
WatertxtData(user, stationid, dates, names, factor) ==
    [user |-> user, date_created |-> "4/9/2014 15:30:00 PM", stationid |-> stationid,
     column_names |-> names,
     parameters |-> [k \in DOMAIN names |->
                        Parameter(names[k], k - 1, Scale(Samples(k, Len(dates)), factor))],
     dates |-> dates]

\* _create_watertxt_test_data(multiplicative_factor, stationid)
CreateWatertxtTestData(multiplicative_factor, stationid) ==
    WatertxtData("jlant", stationid, FixtureDates, FixtureNames, multiplicative_factor)

\* a dictionary without one of its keys
WithoutKey(d, key) == [k \in (DOMAIN d) \ {key} |-> d[k]]

\* two parameters of the fixture
TwoNames == <<"Discharge (cfs)", "PET (mm/day)">>

Station1 == WatertxtData("jlant", "012345", FixtureDates, TwoNames, 1)

Station2 == WatertxtData("jlant", "00000", FixtureDates, TwoNames, 2)

\* other dates
OtherDates == WatertxtData("jlant", "00000", <<1, 2, 4>>, TwoNames, 2)

\* the same dates as a set, one of them twice
RepeatedDate == WatertxtData("jlant", "00000", <<1, 2, 2, 3>>, TwoNames, 2)

\* another key set: no column_names
NoColumnNames == WithoutKey(Station2, "column_names")

\* another key set and other dates
NoColumnNamesOtherDates == WithoutKey(OtherDates, "column_names")

\* names that differ only in the unit, and a name no keyword matches
SameBaseNames ==
    WatertxtData("jlant", "00000", FixtureDates,
                 <<"Flow (cfs)", "Flow (mm/day)", "Unknown">>, 2)

\* a name with a "/" outside the parentheses
SlashName ==
    WatertxtData("jlant", "00000", FixtureDates,
                 <<"Snow Pack (mm)", "In/Out Flow (cfs)">>, 2)

\* names with several keywords, a name without parentheses, a name longer than 60
SeveralKeywords ==
    WatertxtData("jlant", "00000", FixtureDates,
                 << "AET over PET (ratio)", "Return Flow and Discharge",
                    "Average Soil Unsaturated Zone below the Average Soil Root zone (mm)" >>, 2)

\* no parameters
NoParameters == WatertxtData("jlant", "00000", FixtureDates, <<>>, 1)

\* a parameter dictionary without its mean
MissingMean ==
    [Station2 EXCEPT !.parameters =
        [k \in DOMAIN Station2.parameters |->
            IF k = 2 THEN WithoutKey(Station2.parameters[k], "mean")
            ELSE Station2.parameters[k]]]

\* the pairs of WATER.txt dictionaries the driver may hold
WatertxtPairs ==
    { <<CreateWatertxtTestData(1, "012345"), CreateWatertxtTestData(2, "00000")>>,
      <<Station1, Station2>>, <<Station1, OtherDates>>, <<Station1, RepeatedDate>>,
      <<Station1, NoColumnNames>>, <<Station1, NoColumnNamesOtherDates>>,
      <<Station1, SameBaseNames>>, <<Station1, SlashName>>,
      <<Station1, SeveralKeywords>>, <<Station1, MissingMean>>,
      <<NoParameters, Station2>> }

month_list ==
    << "January", "February", "March", "April", "May", "June", "July", "August",
       "September", "October", "November", "December" >>

Digits == <<"1", "2", "3", "4", "5", "6", "7", "8", "9">>

\* the fixture's tile names continued: "11", "12", "21", "22", "31", "32", "41", ...
TileName(i) == Digits[(i + 1) \div 2] \o Digits[((i - 1) % 2) + 1]

\* the fixture's value of month m (1..12) for the tile at position i, continued
\* past the sixth tile by repetition: January 1.3, 1.2, 1.3, 1.4, 1.5, 1.6, ...
DeltaValue(m, i) ==
    10 * m + (IF m % 2 = 1 THEN <<3, 2, 3, 4, 5, 6>> ELSE <<7, 8, 9, 3, 2, 3>>)[((i - 1) % 6) + 1]

\* _create_deltas_test_data() with n tiles
CreateDeltasTestData(n) ==
    [key \in {"Model", "Scenario", "Target", "Variable", "Tile"} \cup Range(month_list) |->
        CASE key = "Model" -> "CanESM2"
          [] key = "Scenario" -> "rcp45"
          [] key = "Target" -> "2030"
          [] key = "Variable" -> "PET"
          [] key = "Tile" -> [i \in 1..n |-> TileName(i)]
          [] OTHER ->
                LET m == CHOOSE j \in DOMAIN month_list : month_list[j] = key
                IN  [i \in 1..n |-> DeltaValue(m, i)]]

\* tiles of the fixture
FixtureTiles == 6

\* a Tile list that names one tile twice, at its first and third positions
RepeatedTile == [CreateDeltasTestData(3) EXCEPT !.Tile = <<"11", "12", "11">>]

\* the deltas dictionaries the driver may hold
DeltasUniverse ==
    {CreateDeltasTestData(n) : n \in {0, FixtureTiles, MaxTiles}} \cup {RepeatedTile}

\* the driver's data: one of the inputs varies while the others are the fixture's
Heaps ==
    { [d1 |-> p[1], d2 |-> p[2], dd |-> CreateDeltasTestData(FixtureTiles)] : p \in WatertxtPairs }
    \cup { [d1 |-> Station1, d2 |-> Station2, dd |-> d] : d \in DeltasUniverse }

\* the save_path arguments: None, the empty string, a directory that exists,
\* a directory that does not
SavePaths == { <<>>, <<"">>, <<"out">>, <<"missing">> }

\* the directories that exist
ExistingDirs == {"out"}

---------------------------------------------------------------------------
(* Calls, figures and the file system *)

\* `if save_path:` is true for a non-empty string only
Truthy(path) == path # <<>> /\ path[1] # ""

NoFrame ==
    [fn |-> "", args |-> <<>>, i |-> 0, colors_index |-> 0,
     figs |-> <<>>, trace |-> <<>>, open_before |-> 0, out_mark |-> 0]

\* the locals of a call that starts now
NewFrame(fn, args) ==
    [NoFrame EXCEPT !.fn = fn, !.args = args, !.i = 1,
                    !.open_before = Len(figures), !.out_mark = Len(stdout)]

\* the record of a call that ends now: `raised` is "" when it returns, else the
\* exception that leaves it; figs are the figures it created, as they were last
\* drawn; trace its pyplot calls; out the lines it printed
CallRecord(f, raised, message, open_after, out) ==
    [fn |-> f.fn, args |-> f.args, raised |-> raised, message |-> message,
     figs |-> f.figs, trace |-> f.trace,
     open_before |-> f.open_before, open_after |-> open_after, out |-> out]

\* the current figure, redrawn
Redrawn(figs, fig) == [figs EXCEPT ![Len(figs)] = fig]

\* plt.savefig(filepath, dpi = 100) after set_size_inches(12, 10): the open()
\* succeeds when the directory of the path exists
CanWrite(filepath) == DirName(filepath) \in ExistingDirs

Image(fig) == [fig |-> fig, inches |-> <<12, 10>>, dpi |-> 100]

Written(fs, filepath, fig) ==
    [q \in (DOMAIN fs) \cup {filepath} |-> IF q = filepath THEN Image(fig) ELSE fs[q]]

---------------------------------------------------------------------------
(* print_watertxt_data *)

\* changed: the max and min lines in the other order
ParameterLinesMinBeforeMax(parameter) ==
    << [text |-> "  " \o parameter.name] >>
    \o (IF "mean" \in DOMAIN parameter
        THEN << [text |-> "      mean: ", value |-> parameter.mean],
                [text |-> "      min: ", value |-> parameter.min],
                [text |-> "      max: ", value |-> parameter.max] >>
        ELSE <<>>)

\* the lines of one parameter; a missing key raises after the lines before it
ParameterLines(parameter) ==
    << [text |-> "  " \o parameter.name] >>
    \o (IF "mean" \in DOMAIN parameter
        THEN << [text |-> "      mean: ", value |-> parameter.mean],
                [text |-> "      max: ", value |-> parameter.max],
                [text |-> "      min: ", value |-> parameter.min] >>
        ELSE <<>>)

\* the lines of parameters k.. up to the first parameter that raises
RECURSIVE ParametersLines(_, _)
ParametersLines(parameters, k) ==
    IF k > Len(parameters) THEN <<>>
    ELSE IF "mean" \in DOMAIN parameters[k]
         THEN ParameterLines(parameters[k]) \o ParametersLines(parameters, k + 1)
         ELSE ParameterLines(parameters[k])

\* everything the call prints, to its end or to the KeyError
PrintedWatertxt(watertxt_data) ==
    << [text |-> ""],
       [text |-> "--- DATA FILE INFORMATION ---"],
       [text |-> "User: " \o watertxt_data.user],
       [text |-> "Date created: " \o watertxt_data.date_created],
       [text |-> "StationID: " \o watertxt_data.stationid],
       [text |-> "Parameters:"] >>
    \o ParametersLines(watertxt_data.parameters, 1)
    \o (IF \A k \in DOMAIN watertxt_data.parameters : "mean" \in DOMAIN watertxt_data.parameters[k]
        THEN << [text |-> ""] >> ELSE <<>>)

print_watertxt_data(a) ==
    /\ pc = "idle" /\ Len(calls) < MaxCalls
    /\ LET watertxt_data == heap[a]
           out == PrintedWatertxt(watertxt_data)
           complete == \A k \in DOMAIN watertxt_data.parameters :
                          "mean" \in DOMAIN watertxt_data.parameters[k]
       IN  /\ stdout' = stdout \o out
           /\ calls' = Append(calls,
                  CallRecord(NewFrame("print_watertxt_data", <<a>>),
                             IF complete THEN "" ELSE "KeyError",
                             IF complete THEN "" ELSE "mean",
                             Len(figures), out))
    /\ UNCHANGED <<heap, is_visible, save_path, pc, frame, figures, files, shown>>

---------------------------------------------------------------------------
(* print_deltas_data *)

\* one line per key of the dictionary; iteritems() fixes no order, so the
\* lines are kept as a set
ItemLines(deltas_data) ==
    { IF key \in {"Model", "Scenario", "Target", "Variable"}
      THEN [text |-> key \o ": ", svalue |-> deltas_data[key]]
      ELSE [text |-> key \o ": ", lvalue |-> deltas_data[key]] : key \in DOMAIN deltas_data }

print_deltas_data ==
    /\ pc = "idle" /\ Len(calls) < MaxCalls
    /\ LET out == << [text |-> "The following are the parameters and values in the file:"],
                     [items |-> ItemLines(heap.dd)] >>
       IN  /\ stdout' = stdout \o out
           /\ calls' = Append(calls,
                  CallRecord(NewFrame("print_deltas_data", <<"dd">>), "", "", Len(figures), out))
    /\ UNCHANGED <<heap, is_visible, save_path, pc, frame, figures, files, shown>>

---------------------------------------------------------------------------
(* The ends of a call and the end of one figure, shared by the renderers *)

\* the call returns
Returns(f) ==
    /\ calls' = Append(calls, CallRecord(f, "", "", Len(figures'), <<>>))
    /\ pc' = "idle"
    /\ frame' = NoFrame

\* changed: the exception caught and another raised in its place
RaisesWrapped(f, raised, message) ==
    /\ calls' = Append(calls, CallRecord(f, "RuntimeError", raised \o ": " \o message,
                                         Len(figures'), <<>>))
    /\ pc' = "idle"
    /\ frame' = NoFrame

\* an exception leaves the call: nothing catches it and nothing is released
Raises(f, raised, message) ==
    /\ calls' = Append(calls, CallRecord(f, raised, message, Len(figures'), <<>>))
    /\ pc' = "idle"
    /\ frame' = NoFrame

\* plt.show(): every open figure is displayed and the call blocks until the
\* windows are dismissed, which destroys them
Show ==
    /\ shown' = shown \o figures
    /\ figures' = <<>>

\* plt.close(): the current figure is destroyed
Close ==
    /\ figures' = SubSeq(figures, 1, Len(figures) - 1)
    /\ shown' = shown

\* `if is_visible: plt.show()  else: plt.close()`
ShowOrClose == IF is_visible THEN Show ELSE Close

\* the trace of the call after the k-th figure was shown or closed
Finished(f, k) ==
    [f EXCEPT !.trace = Append(f.trace, [op |-> IF is_visible THEN "show" ELSE "close", k |-> k])]

---------------------------------------------------------------------------
(* plot_watertxt_data *)

\* changed: the "AET" test before the "PET" test
color_str_AETBeforePET(name) ==
    IF Contains("Discharge", name) THEN "b"
    ELSE IF Contains("Subsurface Flow", name) THEN "g"
    ELSE IF Contains("Impervious Flow", name) THEN "SteelBlue"
    ELSE IF Contains("Infiltration Excess", name) THEN "SeaGreen"
    ELSE IF Contains("Initial Abstracted Flow", name) THEN "MediumBlue"
    ELSE IF Contains("Overland Flow", name) THEN "RoyalBlue"
    ELSE IF Contains("AET", name) THEN "DarkOrange"
    ELSE IF Contains("PET", name) THEN "orange"
    ELSE IF Contains("Average Soil Root zone", name) THEN "Gray"
    ELSE IF Contains("Average Soil Unsaturated Zone", name) THEN "DarkGray"
    ELSE IF Contains("Snow Pack", name) THEN "PowderBlue"
    ELSE IF Contains("Precipitation", name) THEN "SkyBlue"
    ELSE IF Contains("Storage Deficit", name) THEN "k"
    ELSE IF Contains("Return Flow", name) THEN "Aqua"
    ELSE "k"

\* the if/elif chain on the parameter's name
color_str(name) ==
    IF Contains("Discharge", name) THEN "b"
    ELSE IF Contains("Subsurface Flow", name) THEN "g"
    ELSE IF Contains("Impervious Flow", name) THEN "SteelBlue"
    ELSE IF Contains("Infiltration Excess", name) THEN "SeaGreen"
    ELSE IF Contains("Initial Abstracted Flow", name) THEN "MediumBlue"
    ELSE IF Contains("Overland Flow", name) THEN "RoyalBlue"
    ELSE IF Contains("PET", name) THEN "orange"
    ELSE IF Contains("AET", name) THEN "DarkOrange"
    ELSE IF Contains("Average Soil Root zone", name) THEN "Gray"
    ELSE IF Contains("Average Soil Unsaturated Zone", name) THEN "DarkGray"
    ELSE IF Contains("Snow Pack", name) THEN "PowderBlue"
    ELSE IF Contains("Precipitation", name) THEN "SkyBlue"
    ELSE IF Contains("Storage Deficit", name) THEN "k"
    ELSE IF Contains("Return Flow", name) THEN "Aqua"
    ELSE "k"

\* the values of "mean = %.2f\nmax = %.2f\nmin = %.2f", in the order of the text
StatisticsText(parameter) ==
    << [text |-> "mean = ", value |-> parameter.mean],
       [text |-> "max = ", value |-> parameter.max],
       [text |-> "min = ", value |-> parameter.min] >>

\* the figure after figure(), add_subplot, set_title, set_xlabel, set_ylabel
WatertxtAxes(watertxt_data, parameter, call, k) ==
    [kind |-> "watertxt", call |-> call, k |-> k, figsize |-> <<12, 10>>,
     title |-> "Parameter: " \o parameter.name \o "\nStationID: " \o watertxt_data.stationid,
     xlabel |-> "Date", ylabel |-> WrapJoin(parameter.name),
     lines |-> <<>>, legend |-> <<>>, text |-> <<>>]

\* ... after plt.plot and the legend
WatertxtPlotted(watertxt_data, parameter, call, k) ==
    [WatertxtAxes(watertxt_data, parameter, call, k) EXCEPT
        !.lines = << [x |-> watertxt_data.dates, y |-> parameter.data,
                      color |-> color_str(parameter.name),
                      label |-> WrapJoin(parameter.name)] >>,
        !.legend = << WrapJoin(parameter.name) >>]

\* ... after ax.text: the figure as saved and shown
WatertxtFigure(watertxt_data, parameter, call, k) ==
    [WatertxtPlotted(watertxt_data, parameter, call, k) EXCEPT
        !.text = StatisticsText(parameter)]

\* "-".join([user, stationid, name.split("(")[0]]) + ".png"
WatertxtFilename(watertxt_data, parameter) ==
    JoinDash(<<watertxt_data.user, watertxt_data.stationid,
               SplitHead(parameter.name, "(")>>) \o ".png"

\* the call: the loop is entered, or left at once when there is no parameter
CallPlotWatertxtData(a) ==
    /\ pc = "idle" /\ Len(calls) < MaxCalls
    /\ UNCHANGED <<heap, is_visible, save_path, figures, files, shown, stdout>>
    /\ IF heap[a].parameters = <<>>
       THEN Returns(NewFrame("plot_watertxt_data", <<a>>))
       ELSE /\ pc' = "figure"
            /\ frame' = NewFrame("plot_watertxt_data", <<a>>)
            /\ calls' = calls

\* one pass of the loop up to the annotation: the figure is created and drawn
DrawWatertxtFigure ==
    /\ pc = "figure" /\ frame.fn = "plot_watertxt_data"
    /\ LET watertxt_data == heap[frame.args[1]]
           parameter == watertxt_data.parameters[frame.i]
           call == Len(calls) + 1
           axes == WatertxtAxes(watertxt_data, parameter, call, frame.i)
           plotted == WatertxtPlotted(watertxt_data, parameter, call, frame.i)
           fig == WatertxtFigure(watertxt_data, parameter, call, frame.i)
           created == [frame EXCEPT !.trace = Append(frame.trace, [op |-> "figure", k |-> frame.i])]
       IN  IF Len(watertxt_data.dates) # Len(parameter.data)
           THEN /\ figures' = Append(figures, axes)
                /\ Raises([created EXCEPT !.figs = Append(frame.figs, axes)],
                          "ValueError", "x and y must have same first dimension")
           ELSE IF ~({"mean", "max", "min"} \subseteq DOMAIN parameter)
           THEN /\ figures' = Append(figures, plotted)
                /\ Raises([created EXCEPT !.figs = Append(frame.figs, plotted)],
                          "KeyError", "mean")
           ELSE /\ figures' = Append(figures, fig)
                /\ frame' = [created EXCEPT !.figs = Append(frame.figs, fig)]
                /\ pc' = "save"
                /\ calls' = calls
    /\ UNCHANGED <<heap, is_visible, save_path, files, shown, stdout>>

\* `if save_path:` and the savefig of the current figure
SaveWatertxtFigure ==
    /\ pc = "save" /\ frame.fn = "plot_watertxt_data"
    /\ UNCHANGED <<heap, is_visible, save_path, figures, shown, stdout>>
    /\ LET watertxt_data == heap[frame.args[1]]
           parameter == watertxt_data.parameters[frame.i]
           filename == WatertxtFilename(watertxt_data, parameter)
           filepath == PathJoin(save_path[1], filename)
           tried == [frame EXCEPT !.trace =
                        Append(frame.trace, [op |-> "savefig", k |-> frame.i,
                                             filename |-> filename, filepath |-> filepath])]
       IN  IF ~Truthy(save_path)
           THEN /\ pc' = "finish"
                /\ UNCHANGED <<frame, files, calls>>
           ELSE IF CanWrite(filepath)
           THEN /\ files' = Written(files, filepath, figures[Len(figures)])
                /\ frame' = tried
                /\ pc' = "finish"
                /\ calls' = calls
           ELSE /\ files' = files
                /\ Raises(tried, "IOError", filepath)

\* the figure is shown or closed and the loop goes on or ends
FinishWatertxtFigure ==
    /\ pc = "finish" /\ frame.fn = "plot_watertxt_data"
    /\ ShowOrClose
    /\ IF frame.i < Len(heap[frame.args[1]].parameters)
       THEN /\ frame' = [Finished(frame, frame.i) EXCEPT !.i = frame.i + 1]
            /\ pc' = "figure"
            /\ calls' = calls
       ELSE Returns(Finished(frame, frame.i))
    /\ UNCHANGED <<heap, is_visible, save_path, files, stdout>>

---------------------------------------------------------------------------
(* plot_watertxt_comparison *)

\* changed: the assert on the dates left out
AssertionMessageKeysOnly(watertxt_data1, watertxt_data2) ==
    IF DOMAIN watertxt_data1 # DOMAIN watertxt_data2
    THEN "Parameter keys between water datasets do not match"
    ELSE ""

\* the two assert statements: the message of the first that fails, "" when both hold
AssertionMessage(watertxt_data1, watertxt_data2) ==
    IF DOMAIN watertxt_data1 # DOMAIN watertxt_data2
    THEN "Parameter keys between water datasets do not match"
    ELSE IF Range(watertxt_data1.dates) # Range(watertxt_data2.dates)
    THEN "Dates are not equal"
    ELSE ""

\* changed: each parameter of s paired with the parameter of t of the same name
RECURSIVE ZipByName(_, _)
ZipByName(s, t) ==
    IF s = <<>> THEN <<>>
    ELSE IF \E j \in DOMAIN t : t[j].name = Head(s).name
         THEN << <<Head(s), t[CHOOSE j \in DOMAIN t : t[j].name = Head(s).name]>> >>
              \o ZipByName(Tail(s), t)
         ELSE ZipByName(Tail(s), t)

\* zip(parameters1, parameters2): the pairs at the positions both sequences have
Zip(s, t) == [k \in 1..Min2(Len(s), Len(t)) |-> <<s[k], t[k]>>]

\* the figure after figure(), add_subplot(211), set_title, set_xlabel, set_ylabel
ComparisonAxes(watertxt_data1, watertxt_data2, parameter1, call, k) ==
    [kind |-> "comparison", call |-> call, k |-> k, figsize |-> <<12, 10>>,
     title |-> "Parameter: " \o parameter1.name \o "\n"
               \o watertxt_data1.stationid \o " vs " \o watertxt_data2.stationid,
     xlabel |-> "Date", ylabel |-> WrapJoin(parameter1.name),
     lines |-> <<>>, legend |-> <<>>, text |-> <<>>, difference |-> <<>>]

\* the first collection's line: blue, labelled with its station
FirstLine(watertxt_data1, parameter1) ==
    [x |-> watertxt_data1.dates, y |-> parameter1.data, color |-> "b",
     label |-> watertxt_data1.stationid, alpha |-> 100]

\* the second collection's line: red, 75% opaque, against the first's dates
SecondLine(watertxt_data1, watertxt_data2, parameter2) ==
    [x |-> watertxt_data1.dates, y |-> parameter2.data, color |-> "r",
     label |-> watertxt_data2.stationid, alpha |-> 75]

\* diff = parameter2["data"] - parameter1["data"]
diff(parameter1, parameter2) == ArraySub(parameter2.data, parameter1.data)

\* changed: the difference taken in place (parameter2["data"] -= parameter1["data"])
HeapAfterSubtractInPlace(h, a, b, k) ==
    [h EXCEPT ![b].parameters[k].data = ArraySub(@, h[a].parameters[k].data)]

\* the dictionaries after the k-th pass of the loop: the pass reads them and
\* binds new objects only (the binary minus makes a new array for diff)
HeapAfterPass(h, a, b, k) == h

\* the second subplot: the difference as a black line
DifferencePanel(watertxt_data1, parameter1, parameter2) ==
    << [title |-> "Difference", xlabel |-> "Date", ylabel |-> WrapJoin(parameter1.name),
        x |-> watertxt_data1.dates, y |-> diff(parameter1, parameter2), color |-> "k"] >>

\* the figure as saved and shown
ComparisonFigure(watertxt_data1, watertxt_data2, parameter1, parameter2, call, k) ==
    [ComparisonAxes(watertxt_data1, watertxt_data2, parameter1, call, k) EXCEPT
        !.lines = << FirstLine(watertxt_data1, parameter1),
                     SecondLine(watertxt_data1, watertxt_data2, parameter2) >>,
        !.legend = << watertxt_data1.stationid, watertxt_data2.stationid >>,
        !.text = StatisticsText(parameter1) \o << [text |-> "---"] >> \o StatisticsText(parameter2),
        !.difference = DifferencePanel(watertxt_data1, parameter1, parameter2)]

\* "-".join([user1, stationid1, " vs ", user2, stationid2, name1.split("(")[0]]) + ".png"
ComparisonFilename(watertxt_data1, watertxt_data2, parameter1) ==
    JoinDash(<<watertxt_data1.user, watertxt_data1.stationid, " vs ",
               watertxt_data2.user, watertxt_data2.stationid,
               SplitHead(parameter1.name, "(")>>) \o ".png"

\* the call: the asserts, then the loop is entered, or left at once when zip is empty
CallPlotWatertxtComparison(a, b) ==
    /\ pc = "idle" /\ Len(calls) < MaxCalls
    /\ UNCHANGED <<heap, is_visible, save_path, figures, files, shown, stdout>>
    /\ LET f == NewFrame("plot_watertxt_comparison", <<a, b>>)
           message == AssertionMessage(heap[a], heap[b])
       IN  IF message # ""
           THEN Raises(f, "AssertionError", message)
           ELSE IF Zip(heap[a].parameters, heap[b].parameters) = <<>>
           THEN Returns(f)
           ELSE /\ pc' = "figure"
                /\ frame' = f
                /\ calls' = calls

\* one pass of the loop up to autofmt_xdate: the figure is created and drawn
DrawComparisonFigure ==
    /\ pc = "figure" /\ frame.fn = "plot_watertxt_comparison"
    /\ LET watertxt_data1 == heap[frame.args[1]]
           watertxt_data2 == heap[frame.args[2]]
           pair == Zip(watertxt_data1.parameters, watertxt_data2.parameters)[frame.i]
           parameter1 == pair[1]
           parameter2 == pair[2]
           dates == watertxt_data1.dates
           call == Len(calls) + 1
           axes == ComparisonAxes(watertxt_data1, watertxt_data2, parameter1, call, frame.i)
           one == [axes EXCEPT !.lines = << FirstLine(watertxt_data1, parameter1) >>]
           two == [axes EXCEPT !.lines = << FirstLine(watertxt_data1, parameter1),
                                            SecondLine(watertxt_data1, watertxt_data2, parameter2) >>,
                               !.legend = << watertxt_data1.stationid, watertxt_data2.stationid >>]
           fig == ComparisonFigure(watertxt_data1, watertxt_data2, parameter1, parameter2,
                                   call, frame.i)
           created == [frame EXCEPT !.trace = Append(frame.trace, [op |-> "figure", k |-> frame.i])]
       IN  IF Len(dates) # Len(parameter1.data)
           THEN /\ figures' = Append(figures, axes)
                /\ heap' = heap
                /\ Raises([created EXCEPT !.figs = Append(frame.figs, axes)],
                          "ValueError", "x and y must have same first dimension")
           ELSE IF Len(dates) # Len(parameter2.data)
           THEN /\ figures' = Append(figures, one)
                /\ heap' = heap
                /\ Raises([created EXCEPT !.figs = Append(frame.figs, one)],
                          "ValueError", "x and y must have same first dimension")
           ELSE IF ~({"mean", "max", "min"} \subseteq (DOMAIN parameter1 \cap DOMAIN parameter2))
           THEN /\ figures' = Append(figures, two)
                /\ heap' = heap
                /\ Raises([created EXCEPT !.figs = Append(frame.figs, two)],
                          "KeyError", "mean")
           ELSE /\ figures' = Append(figures, fig)
                /\ heap' = HeapAfterPass(heap, frame.args[1], frame.args[2], frame.i)
                /\ frame' = [created EXCEPT !.figs = Append(frame.figs, fig)]
                /\ pc' = "save"
                /\ calls' = calls
    /\ UNCHANGED <<is_visible, save_path, files, shown, stdout>>

\* `if save_path:` and the savefig of the current figure
SaveComparisonFigure ==
    /\ pc = "save" /\ frame.fn = "plot_watertxt_comparison"
    /\ UNCHANGED <<heap, is_visible, save_path, figures, shown, stdout>>
    /\ LET watertxt_data1 == heap[frame.args[1]]
           watertxt_data2 == heap[frame.args[2]]
           parameter1 == Zip(watertxt_data1.parameters, watertxt_data2.parameters)[frame.i][1]
           filename == ComparisonFilename(watertxt_data1, watertxt_data2, parameter1)
           filepath == PathJoin(save_path[1], filename)
           tried == [frame EXCEPT !.trace =
                        Append(frame.trace, [op |-> "savefig", k |-> frame.i,
                                             filename |-> filename, filepath |-> filepath])]
       IN  IF ~Truthy(save_path)
           THEN /\ pc' = "finish"
                /\ UNCHANGED <<frame, files, calls>>
           ELSE IF CanWrite(filepath)
           THEN /\ files' = Written(files, filepath, figures[Len(figures)])
                /\ frame' = tried
                /\ pc' = "finish"
                /\ calls' = calls
           ELSE /\ files' = files
                /\ Raises(tried, "IOError", filepath)

\* the figure is shown or closed and the loop goes on or ends
FinishComparisonFigure ==
    /\ pc = "finish" /\ frame.fn = "plot_watertxt_comparison"
    /\ ShowOrClose
    /\ IF frame.i < Len(Zip(heap[frame.args[1]].parameters, heap[frame.args[2]].parameters))
       THEN /\ frame' = [Finished(frame, frame.i) EXCEPT !.i = frame.i + 1]
            /\ pc' = "figure"
            /\ calls' = calls
       ELSE Returns(Finished(frame, frame.i))
    /\ UNCHANGED <<heap, is_visible, save_path, files, stdout>>

---------------------------------------------------------------------------
(* plot_deltas_data *)

colors_list == <<"b", "g", "r", "k", "y", "c", "m", "orange">>

\* values np.random.rand(3,) may return, in tenths
RandomTriples == { <<1, 5, 9>>, <<7, 2, 4>> }

\* deltas_data["Tile"].index(tile): the first position of tile
TileIndex(deltas_data, tile) ==
    CHOOSE j \in DOMAIN deltas_data.Tile :
        /\ deltas_data.Tile[j] = tile
        /\ \A h \in 1..(j - 1) : deltas_data.Tile[h] # tile

\* the inner loop: the months parsed with "%B" (their numbers) and the tile's values
MonthDates == [m \in DOMAIN month_list |-> m]

\* changed: the months taken in the sorted order of the dictionary's keys
MonthDataSorted(deltas_data, tile_index) ==
    [m \in DOMAIN month_list |->
        deltas_data[<< "April", "August", "December", "February", "January", "July",
                       "June", "March", "May", "November", "October", "September" >>[m]][tile_index]]

\* data: the value of each month of month_list, in its order, at tile_index
MonthData(deltas_data, tile_index) ==
    [m \in DOMAIN month_list |-> deltas_data[month_list[m]][tile_index]]

DeltasTitle(deltas_data) ==
    "Model: " \o deltas_data.Model \o " Scenario: " \o deltas_data.Scenario
    \o " Target: " \o deltas_data.Target \o " Variable:" \o deltas_data.Variable

\* "Model = %s\nScenario = %s\nTarget = %s\nVariable = %s"
DeltasText(deltas_data) ==
    "Model = " \o deltas_data.Model \o "\nScenario = " \o deltas_data.Scenario
    \o "\nTarget = " \o deltas_data.Target \o "\nVariable = " \o deltas_data.Variable

\* the figure after figure(), add_subplot, set_title, set_xlabel, set_ylabel
DeltasAxes(deltas_data, call) ==
    [kind |-> "deltas", call |-> call, k |-> 1, figsize |-> <<12, 10>>,
     title |-> DeltasTitle(deltas_data), xlabel |-> "Date", ylabel |-> "Delta Values",
     curves |-> <<>>, legend |-> <<>>, text |-> <<>>]

\* changed: the palette wrapped around past its end
TileColorsWrapped(colors_index) ==
    { [name |-> colors_list[(colors_index % Len(colors_list)) + 1]] }

\* the colours the tile at colors_index may get: the palette's, or any random triple
TileColors(colors_index) ==
    IF colors_index > Len(colors_list) - 1
    THEN { [rgb |-> t] : t \in RandomTriples }
    ELSE { [name |-> colors_list[colors_index + 1]] }

\* the figure after one more pass of the tile loop
TilePlotted(fig, deltas_data, tile, c) ==
    [fig EXCEPT
        !.curves = Append(fig.curves,
                      [x |-> MonthDates, y |-> MonthData(deltas_data, TileIndex(deltas_data, tile)),
                       c |-> c, linestyle |-> "-", marker |-> "o", label |-> tile]),
        !.legend = Append(fig.legend, tile),
        !.text = Append(fig.text, DeltasText(deltas_data))]

\* Model_Scenario_Target_Variable
DeltasFilename(deltas_data) ==
    deltas_data.Model \o "_" \o deltas_data.Scenario \o "_" \o deltas_data.Target
    \o "_" \o deltas_data.Variable

\* the call up to the tile loop: the figure is created and titled
CallPlotDeltasData ==
    /\ pc = "idle" /\ Len(calls) < MaxCalls
    /\ LET axes == DeltasAxes(heap.dd, Len(calls) + 1)
           f == NewFrame("plot_deltas_data", <<"dd">>)
       IN  /\ figures' = Append(figures, axes)
           /\ frame' = [f EXCEPT !.figs = <<axes>>, !.trace = << [op |-> "figure", k |-> 1] >>]
           /\ pc' = IF heap.dd.Tile = <<>> THEN "save" ELSE "tile"
    /\ UNCHANGED <<heap, is_visible, save_path, files, shown, stdout, calls>>

\* one pass of the tile loop: the tile's line is drawn in its colour
PlotTile ==
    /\ pc = "tile" /\ frame.fn = "plot_deltas_data"
    /\ LET deltas_data == heap.dd
           tile == deltas_data.Tile[frame.i]
       IN  \E c \in TileColors(frame.colors_index) :
              LET fig == TilePlotted(figures[Len(figures)], deltas_data, tile, c)
              IN  /\ figures' = Redrawn(figures, fig)
                  /\ frame' = [frame EXCEPT !.i = frame.i + 1,
                                            !.colors_index = frame.colors_index + 1,
                                            !.figs = <<fig>>]
                  /\ pc' = IF frame.i < Len(deltas_data.Tile) THEN "tile" ELSE "save"
    /\ UNCHANGED <<heap, is_visible, save_path, files, shown, stdout, calls>>

\* `if save_path:` and the savefig of the current figure
SaveDeltasFigure ==
    /\ pc = "save" /\ frame.fn = "plot_deltas_data"
    /\ UNCHANGED <<heap, is_visible, save_path, figures, shown, stdout>>
    /\ LET filename == DeltasFilename(heap.dd)
           filepath == save_path[1] \o "/" \o filename \o ".png"
           tried == [frame EXCEPT !.trace =
                        Append(frame.trace, [op |-> "savefig", k |-> 1,
                                             filename |-> filename, filepath |-> filepath])]
       IN  IF ~Truthy(save_path)
           THEN /\ pc' = "finish"
                /\ UNCHANGED <<frame, files, calls>>
           ELSE IF CanWrite(filepath)
           THEN /\ files' = Written(files, filepath, figures[Len(figures)])
                /\ frame' = tried
                /\ pc' = "finish"
                /\ calls' = calls
           ELSE /\ files' = files
                /\ Raises(tried, "IOError", filepath)

\* the figure is shown or closed and the call returns
FinishDeltasFigure ==
    /\ pc = "finish" /\ frame.fn = "plot_deltas_data"
    /\ ShowOrClose
    /\ Returns(Finished(frame, 1))
    /\ UNCHANGED <<heap, is_visible, save_path, files, stdout>>

---------------------------------------------------------------------------
(* The driver *)

Init ==
    /\ heap \in Heaps
    /\ is_visible \in BOOLEAN
    /\ save_path \in SavePaths
    /\ pc = "idle"
    /\ frame = NoFrame
    /\ figures = <<>>
    /\ files = <<>>
    /\ shown = <<>>
    /\ stdout = <<>>
    /\ calls = <<>>

Next ==
    \/ \E a \in {"d1", "d2"} : print_watertxt_data(a)
    \/ print_deltas_data
    \/ \E a \in {"d1", "d2"} : CallPlotWatertxtData(a)
    \/ DrawWatertxtFigure
    \/ SaveWatertxtFigure
    \/ FinishWatertxtFigure
    \/ \E a, b \in {"d1", "d2"} : a # b /\ CallPlotWatertxtComparison(a, b)
    \/ DrawComparisonFigure
    \/ SaveComparisonFigure
    \/ FinishComparisonFigure
    \/ CallPlotDeltasData
    \/ PlotTile
    \/ SaveDeltasFigure
    \/ FinishDeltasFigure

Spec == Init /\ [][Next]_vars

---------------------------------------------------------------------------
(* Properties *)

Last(s) == s[Len(s)]

Renderers == {"plot_watertxt_data", "plot_watertxt_comparison", "plot_deltas_data"}

\* the savefig calls of a trace
Saves(trace) == { trace[j] : j \in { h \in DOMAIN trace : trace[h].op = "savefig" } }

\* this step starts a call of fn on args
Starts(fn, args) ==
    /\ pc = "idle"
    /\ \/ pc' # "idle" /\ frame'.fn = fn /\ frame'.args = args
       \/ Len(calls') = Len(calls) + 1 /\ Last(calls').fn = fn /\ Last(calls').args = args

KeysDiffer(a, b) == DOMAIN heap[a] # DOMAIN heap[b]

DatesDiffer(a, b) == Range(heap[a].dates) # Range(heap[b].dates)

\* C1: a call of plot_watertxt_comparison on two collections whose key sets
\* differ, or whose dates differ as sets, ends at once with an AssertionError
\* whose message names the check that failed (the keys check comes first), and
\* at that moment no figure has been created, no file written and nothing shown.
C1_PreconditionFailsBeforeRendering ==
    [][ \A a, b \in {"d1", "d2"} :
          ( /\ a # b
            /\ Starts("plot_watertxt_comparison", <<a, b>>)
            /\ (KeysDiffer(a, b) \/ DatesDiffer(a, b)) )
          => /\ pc' = "idle"
             /\ Len(calls') = Len(calls) + 1
             /\ Last(calls').raised = "AssertionError"
             /\ Last(calls').message =
                    IF KeysDiffer(a, b)
                    THEN "Parameter keys between water datasets do not match"
                    ELSE "Dates are not equal"
             /\ Last(calls').figs = <<>>
             /\ Last(calls').trace = <<>>
             /\ figures' = figures
             /\ files' = files
             /\ shown' = shown ]_vars

\* C1 witness: a call on collections of equal key sets and different dates
\* has failed with the dates message
C1_Witness ==
    /\ calls # <<>>
    /\ Last(calls).fn = "plot_watertxt_comparison"
    /\ Last(calls).raised = "AssertionError"
    /\ Last(calls).message = "Dates are not equal"
    /\ DOMAIN heap.d1 = DOMAIN heap.d2
    /\ Range(heap.d1.dates) # Range(heap.d2.dates)

\* C2: with is_visible false, every renderer call leaves as many figures open
\* as it found, however it ends.
C2_FiguresReleasedOnEveryExit ==
    \A n \in DOMAIN calls :
        (~is_visible /\ calls[n].fn \in Renderers)
        => calls[n].open_after = calls[n].open_before

\* the text before the first "(" of name, said without the split: a prefix of
\* name without "(" that is all of name or is followed by "("
IsNamePart(part, name) ==
    /\ Len(part) <= Len(name)
    /\ SubSeq(name, 1, Len(part)) = part
    /\ ~Contains("(", part)
    /\ (Len(part) = Len(name) \/ SubSeq(name, Len(part) + 1, Len(part) + 1) = "(")

\* the name whose file the k-th savefig of a call writes
SavedName(fn, args, k) == heap[args[1]].parameters[k].name

\* the prefix of the file name before the name part
FilenamePrefix(fn, args) ==
    IF fn = "plot_watertxt_data"
    THEN heap[args[1]].user \o "-" \o heap[args[1]].stationid \o "-"
    ELSE heap[args[1]].user \o "-" \o heap[args[1]].stationid \o "- vs -"
         \o heap[args[2]].user \o "-" \o heap[args[2]].stationid \o "-"

\* the filename of a savefig is prefix, name part, ".png" and holds no "/"
GoodFilename(fn, args, e) ==
    /\ \E part \in { SubSeq(SavedName(fn, args, e.k), 1, j) : j \in 0..Len(SavedName(fn, args, e.k)) } :
          /\ IsNamePart(part, SavedName(fn, args, e.k))
          /\ e.filename = FilenamePrefix(fn, args) \o part \o ".png"
    /\ ~Contains("/", e.filename)

\* C3: in plot_watertxt_data and plot_watertxt_comparison the name part of
\* every file name is the parameter's name cut at its first "(", and the file
\* name holds no "/".
C3_FilenameCutAtParenthesisWithoutSlash ==
    /\ \A n \in DOMAIN calls :
          calls[n].fn \in {"plot_watertxt_data", "plot_watertxt_comparison"}
          => \A e \in Saves(calls[n].trace) : GoodFilename(calls[n].fn, calls[n].args, e)
    /\ frame.fn \in {"plot_watertxt_data", "plot_watertxt_comparison"}
          => \A e \in Saves(frame.trace) : GoodFilename(frame.fn, frame.args, e)

\* the keyword table of the colour policy, in its order
ColorTable ==
    << <<"Discharge", "b">>, <<"Subsurface Flow", "g">>, <<"Impervious Flow", "SteelBlue">>,
       <<"Infiltration Excess", "SeaGreen">>, <<"Initial Abstracted Flow", "MediumBlue">>,
       <<"Overland Flow", "RoyalBlue">>, <<"PET", "orange">>, <<"AET", "DarkOrange">>,
       <<"Average Soil Root zone", "Gray">>, <<"Average Soil Unsaturated Zone", "DarkGray">>,
       <<"Snow Pack", "PowderBlue">>, <<"Precipitation", "SkyBlue">>,
       <<"Storage Deficit", "k">>, <<"Return Flow", "Aqua">> >>

\* the rows of the table whose keyword is in name
Matches(name) == { r \in DOMAIN ColorTable : Contains(ColorTable[r][1], name) }

\* the colour of the earliest row that matches, black when none does
FirstMatchColor(name) ==
    IF Matches(name) = {} THEN "k"
    ELSE ColorTable[CHOOSE r \in Matches(name) : \A q \in Matches(name) : r <= q][2]

\* C4: the line of every figure of plot_watertxt_data has the colour of the
\* earliest keyword of the table that is in the parameter's name, orange when
\* both "PET" and "AET" are in it, black when no keyword is.
C4_ColorIsFirstMatch ==
    (pc = "save" /\ frame.fn = "plot_watertxt_data")
    => LET name == heap[frame.args[1]].parameters[frame.i].name
           line == Last(figures).lines[1]
       IN  /\ line.color = FirstMatchColor(name)
           /\ (Contains("PET", name) /\ Contains("AET", name)
                 /\ FirstMatchColor(name) \in {"orange", "DarkOrange"})
                 => line.color = "orange"
           /\ Matches(name) = {} => line.color = "k"

\* C4 witness: a figure drawn in orange for a name holding both "PET" and "AET"
C4_Witness ==
    /\ pc = "save" /\ frame.fn = "plot_watertxt_data"
    /\ Contains("PET", heap[frame.args[1]].parameters[frame.i].name)
    /\ Contains("AET", heap[frame.args[1]].parameters[frame.i].name)
    /\ Last(figures).lines[1].color = "orange"

\* the collection has every field the printer reads
WellFormed(watertxt_data) ==
    \A k \in DOMAIN watertxt_data.parameters :
        {"name", "mean", "max", "min", "data"} \subseteq DOMAIN watertxt_data.parameters[k]

Negated(y) == [i \in DOMAIN y |-> 0 - y[i]]

\* figure g of a call on (b, a) is figure f of the call on (a, b) with the
\* roles of the two collections exchanged and the difference negated
RolesExchanged(f, g, a, b, k) ==
    /\ f.lines[1].color = "b" /\ g.lines[1].color = "b"
    /\ f.lines[2].color = "r" /\ g.lines[2].color = "r"
    /\ g.lines[1].y = f.lines[2].y /\ g.lines[2].y = f.lines[1].y
    /\ g.lines[1].label = f.lines[2].label /\ g.lines[2].label = f.lines[1].label
    /\ g.legend = << f.legend[2], f.legend[1] >>
    /\ g.text = SubSeq(f.text, 5, 7) \o << f.text[4] >> \o SubSeq(f.text, 1, 3)
    /\ f.title = "Parameter: " \o heap[a].parameters[k].name \o "\n"
                 \o heap[a].stationid \o " vs " \o heap[b].stationid
    /\ g.title = "Parameter: " \o heap[b].parameters[k].name \o "\n"
                 \o heap[b].stationid \o " vs " \o heap[a].stationid
    /\ f.difference[1].y = ArraySub(heap[b].parameters[k].data, heap[a].parameters[k].data)
    /\ g.difference[1].y = Negated(f.difference[1].y)

\* C6: when a call of plot_watertxt_comparison on (A, B) succeeds, the call
\* on (B, A) succeeds too, with the blue/first and red/second roles exchanged
\* in every figure and every difference series negated.
C6_SwappedCallSucceedsWithRolesExchanged ==
    \A m, n \in DOMAIN calls :
        ( /\ calls[m].fn = "plot_watertxt_comparison"
          /\ calls[n].fn = "plot_watertxt_comparison"
          /\ calls[n].args = << calls[m].args[2], calls[m].args[1] >>
          /\ calls[m].raised = "" )
        => /\ calls[n].raised = ""
           /\ Len(calls[n].figs) = Len(calls[m].figs)
           /\ \A k \in DOMAIN calls[m].figs :
                 RolesExchanged(calls[m].figs[k], calls[n].figs[k],
                                calls[m].args[1], calls[m].args[2], k)

\* the palette of the colour policy, in its order
Palette == <<"b", "g", "r", "k", "y", "c", "m", "orange">>

\* a random RGB triple: three components between 0 and 1 (in tenths)
IsRandomTriple(c) ==
    /\ DOMAIN c = {"rgb"}
    /\ Len(c.rgb) = 3
    /\ \A j \in 1..3 : c.rgb[j] \in 0..10

\* the tiles of the figure are coloured by position: the palette for the
\* first eight, a random triple for each later one
ColouredByPosition(fig) ==
    \A i \in DOMAIN fig.curves :
        /\ i <= Len(Palette) => fig.curves[i].c = [name |-> Palette[i]]
        /\ i > Len(Palette) => IsRandomTriple(fig.curves[i].c)
        /\ fig.curves[i].label = heap.dd.Tile[i]

\* C7: in plot_deltas_data the tile at position i gets the i-th colour of the
\* palette while i < 8 (counting from 0) and a random triple from then on, the
\* palette never being reused, and the colour index is the number of tiles
\* drawn so far.
C7_PaletteByPositionThenRandom ==
    /\ (frame.fn = "plot_deltas_data")
          => /\ ColouredByPosition(Last(figures))
             /\ frame.colors_index = Len(Last(figures).curves)
             /\ frame.colors_index = frame.i - 1
             /\ pc # "tile" => Len(Last(figures).curves) = Len(heap.dd.Tile)
    /\ \A n \in DOMAIN calls :
          calls[n].fn = "plot_deltas_data"
          => /\ ColouredByPosition(calls[n].figs[1])
             /\ Len(calls[n].figs[1].curves) = Len(heap.dd.Tile)

\* C7 witness: a figure of ten tiles whose ninth and tenth tiles got
\* different random triples after the eight palette colours
C7_Witness ==
    /\ calls # <<>>
    /\ Last(calls).fn = "plot_deltas_data"
    /\ Len(Last(calls).figs[1].curves) >= 10
    /\ Last(calls).figs[1].curves[8].c = [name |-> "orange"]
    /\ IsRandomTriple(Last(calls).figs[1].curves[9].c)
    /\ Last(calls).figs[1].curves[9].c # Last(calls).figs[1].curves[10].c

\* the paths a call has written
WrittenBy(c) == { e.filepath : e \in Saves(c.trace) } \cap DOMAIN files

\* C8: a call of plot_watertxt_data with a save destination that returns
\* leaves one image file per parameter, and when it returns each file holds
\* that parameter's figure.
C8_OneImagePerParameter ==
    \A n \in DOMAIN calls :
        ( /\ calls[n].fn = "plot_watertxt_data"
          /\ calls[n].raised = ""
          /\ Truthy(save_path) )
        => /\ Cardinality(WrittenBy(calls[n])) = Len(heap[calls[n].args[1]].parameters)
           /\ (n = Len(calls) /\ pc = "idle") =>
                 \A e \in Saves(calls[n].trace) : files[e.filepath].fig = calls[n].figs[e.k]

\* C9: no step of any printer or renderer changes a field of an input
\* collection, whether the call returns or raises.
C9_InputsUnchanged == [][heap' = heap]_vars

\* C9 witness: a comparison has drawn its figures, differences included, a
\* call has raised, and the dictionaries are still the driver's
C9_Witness ==
    /\ Len(calls) = 2
    /\ \E n \in DOMAIN calls :
          /\ calls[n].fn = "plot_watertxt_comparison"
          /\ calls[n].raised = ""
          /\ calls[n].figs # <<>>
          /\ calls[n].figs[1].difference # <<>>
    /\ \E n \in DOMAIN calls : calls[n].raised # ""
    /\ heap \in Heaps

\* figure fig of a comparison on (a, b) is drawn from the k-th parameter of
\* each collection
DrawnFromPair(fig, a, b, k) ==
    /\ fig.k = k
    /\ fig.title = "Parameter: " \o heap[a].parameters[k].name \o "\n"
                   \o heap[a].stationid \o " vs " \o heap[b].stationid
    /\ fig.lines # <<>> => fig.lines[1].y = heap[a].parameters[k].data
    /\ Len(fig.lines) = 2 => fig.lines[2].y = heap[b].parameters[k].data
    /\ fig.text # <<>> =>
          /\ fig.text[1].value = heap[a].parameters[k].mean
          /\ fig.text[5].value = heap[b].parameters[k].mean
    /\ fig.difference # <<>> =>
          fig.difference[1].y = ArraySub(heap[b].parameters[k].data, heap[a].parameters[k].data)

NameSet(d) == { d.parameters[k].name : k \in DOMAIN d.parameters }

\* C10: plot_watertxt_comparison pairs the parameters by position: its i-th
\* figure is drawn from the i-th parameter of each collection, a call that
\* returns has drawn one figure for each position both collections have and
\* none beyond, and the names play no part in the asserts.
C10_PairedByPosition ==
    \A n \in DOMAIN calls :
        calls[n].fn = "plot_watertxt_comparison"
        => LET a == calls[n].args[1]
               b == calls[n].args[2]
           IN  /\ \A k \in DOMAIN calls[n].figs : DrawnFromPair(calls[n].figs[k], a, b, k)
               /\ calls[n].raised = ""
                     => Len(calls[n].figs) = Min2(Len(heap[a].parameters), Len(heap[b].parameters))
               /\ Len(calls[n].figs) <= Min2(Len(heap[a].parameters), Len(heap[b].parameters))
               /\ calls[n].raised = "AssertionError"
                     <=> (KeysDiffer(a, b) \/ DatesDiffer(a, b))
               /\ ( /\ ~KeysDiffer(a, b) /\ ~DatesDiffer(a, b)
                    /\ WellFormed(heap[a]) /\ WellFormed(heap[b])
                    /\ Len(heap[a].dates) = Len(heap[b].dates)
                    /\ ~Truthy(save_path) )
                     => calls[n].raised = ""

\* C10 witness: two collections of the same dates, disjoint names and
\* different numbers of parameters have been rendered, in both orders
C10_Witness ==
    /\ Len(calls) = 2
    /\ \A n \in 1..2 : calls[n].fn = "plot_watertxt_comparison" /\ calls[n].raised = ""
    /\ calls[1].args # calls[2].args
    /\ heap.d1.dates = heap.d2.dates
    /\ NameSet(heap.d1) \cap NameSet(heap.d2) = {}
    /\ Len(heap.d1.parameters) # Len(heap.d2.parameters)
    /\ Len(calls[1].figs) = 2

\* the renderers that draw one figure per parameter
PerParameter == {"plot_watertxt_data", "plot_watertxt_comparison"}

\* the parameter dictionaries the pass in progress reads
ParametersOfPass ==
    { heap[frame.args[j]].parameters[frame.i] : j \in DOMAIN frame.args }

\* the pass in progress is about to read a statistic that a parameter lacks,
\* its arrays being as long as the dates
MissingField ==
    /\ pc = "figure"
    /\ \A p \in ParametersOfPass : Len(p.data) = Len(heap[frame.args[1]].dates)
    /\ \E p \in ParametersOfPass : ~({"mean", "max", "min"} \subseteq DOMAIN p)

\* the directory part of the path the pass in progress saves to
SaveDirectory ==
    DirName(PathJoin(save_path[1],
                     FilenamePrefix(frame.fn, frame.args)
                     \o SplitHead(heap[frame.args[1]].parameters[frame.i].name, "(")
                     \o ".png"))

\* the pass in progress is about to save into a directory that does not exist
FailedSave ==
    /\ pc = "save"
    /\ Truthy(save_path)
    /\ SaveDirectory \notin ExistingDirs

\* C11: in plot_watertxt_data and plot_watertxt_comparison, when the pass for
\* the k-th parameter reads a missing field or its save fails, the call ends
\* in that step with that very error (KeyError, IOError) raised to the caller;
\* the call has created k figures and none for a later parameter, has tried
\* no save for a later parameter and has not shown or closed the k-th figure;
\* the step writes and removes no file, and every image the call saved for a
\* parameter before the k-th is still on disk, holding a figure of that call
\* drawn before the k-th.  No step of such a call removes a file.
C11_FailureEndsCallKeepsImages ==
    [][ (frame.fn \in PerParameter)
        => /\ \A q \in DOMAIN files : q \in DOMAIN files'
           /\ (MissingField \/ FailedSave)
              => /\ pc' = "idle"
                 /\ frame' = NoFrame
                 /\ Len(calls') = Len(calls) + 1
                 /\ LET c == Last(calls')
                        k == frame.i
                    IN  /\ c.fn = frame.fn /\ c.args = frame.args
                        /\ c.raised = IF MissingField THEN "KeyError" ELSE "IOError"
                        /\ Len(c.figs) = k
                        /\ \A j \in DOMAIN c.trace : c.trace[j].k <= k
                        /\ Last(c.trace).k = k
                        /\ Last(c.trace).op \in {"figure", "savefig"}
                        /\ files' = files
                        /\ \A e \in Saves(c.trace) :
                              e.k < k
                              => /\ e.filepath \in DOMAIN files'
                                 /\ files'[e.filepath].fig \in { c.figs[j] : j \in 1..(k - 1) } ]_vars

\* C11 witness: a call of a per-parameter renderer has failed to save its
\* second image, after two figures, and its first image is on disk
C11_Witness ==
    /\ calls # <<>>
    /\ pc = "idle"
    /\ Last(calls).fn \in PerParameter
    /\ Last(calls).raised = "IOError"
    /\ Len(Last(calls).figs) = 2
    /\ \E e \in Saves(Last(calls).trace) :
          /\ e.k = 1
          /\ e.filepath \in DOMAIN files
          /\ files[e.filepath].fig = Last(calls).figs[1]
    /\ Cardinality(DOMAIN files) = 1

\* the positions of the trace at which figure k is created, saved, shown or closed
Created(trace, k) == { j \in DOMAIN trace : trace[j].op = "figure" /\ trace[j].k = k }

SavedAt(trace, k) == { j \in DOMAIN trace : trace[j].op = "savefig" /\ trace[j].k = k }

ShownAt(trace, k) == { j \in DOMAIN trace : trace[j].op = "show" /\ trace[j].k = k }

ClosedAt(trace, k) == { j \in DOMAIN trace : trace[j].op = "close" /\ trace[j].k = k }

\* the savefig calls of the call that wrote their file: all but one that raised
WroteAt(c, k) ==
    { j \in SavedAt(c.trace, k) : ~(c.raised = "IOError" /\ j = Len(c.trace)) }

\* the figure has all its decoration: its lines, its legend and its text
\* (a deltas figure: one line, legend entry and text per tile)
FullyDecorated(fig) ==
    IF fig.kind = "deltas"
    THEN /\ Len(fig.curves) = Len(heap.dd.Tile)
         /\ Len(fig.legend) = Len(heap.dd.Tile)
         /\ Len(fig.text) = Len(heap.dd.Tile)
    ELSE /\ fig.lines # <<>> /\ fig.legend # <<>> /\ fig.text # <<>>
         /\ fig.kind = "comparison" => Len(fig.lines) = 2 /\ fig.difference # <<>>

\* figure k of call number n is created once, written once exactly when a
\* non-empty save destination is given, then shown once and never closed
\* (is_visible) or closed once and never shown (not is_visible), in this
\* order; an image of it on disk is the fully decorated figure
SavedThenShownOrClosed(n, k) ==
    LET c == calls[n]
        t == c.trace
    IN  /\ Cardinality(Created(t, k)) = 1
        /\ Cardinality(WroteAt(c, k)) = (IF Truthy(save_path) THEN 1 ELSE 0)
        /\ SavedAt(t, k) = WroteAt(c, k)
        /\ Cardinality(ShownAt(t, k)) = (IF is_visible THEN 1 ELSE 0)
        /\ Cardinality(ClosedAt(t, k)) = (IF is_visible THEN 0 ELSE 1)
        /\ \A f \in Created(t, k), w \in SavedAt(t, k) : f < w
        /\ \A f \in Created(t, k), e \in ShownAt(t, k) \cup ClosedAt(t, k) : f < e
        /\ \A w \in SavedAt(t, k), e \in ShownAt(t, k) \cup ClosedAt(t, k) : w < e
        /\ FullyDecorated(c.figs[k])
        /\ \A w \in SavedAt(t, k) :
              ( /\ t[w].filepath \in DOMAIN files
                /\ files[t[w].filepath].fig.call = n
                /\ files[t[w].filepath].fig.k = k )
              => files[t[w].filepath] = Image(c.figs[k])

\* C12: for every figure of every call of a renderer that has ended: the
\* image is written exactly when a non-empty save destination is given, after
\* the figure is fully decorated and before it is shown or closed, and then
\* the figure is shown (is_visible) or closed (not is_visible), one of the two
\* and once; in the per-parameter renderers figure i is shown or closed before
\* figure i + 1 is created; plot_deltas_data has one figure.
C12_SaveThenShowOrClose ==
    \A n \in DOMAIN calls :
        calls[n].fn \in Renderers
        => /\ \A k \in DOMAIN calls[n].figs : SavedThenShownOrClosed(n, k)
           /\ \A j \in DOMAIN calls[n].trace : calls[n].trace[j].k \in DOMAIN calls[n].figs
           /\ \A k \in DOMAIN calls[n].figs :
                 (k + 1) \in DOMAIN calls[n].figs
                 => \A e \in ShownAt(calls[n].trace, k) \cup ClosedAt(calls[n].trace, k),
                       f \in Created(calls[n].trace, k + 1) : e < f
           /\ calls[n].fn = "plot_deltas_data" => Len(calls[n].figs) = 1

\* no tile identifier occurs twice
UniqueTiles(deltas_data) ==
    \A i, j \in DOMAIN deltas_data.Tile :
        deltas_data.Tile[i] = deltas_data.Tile[j] => i = j

\* the i-th entries of the twelve month sequences, January first
ValuesAtPosition(deltas_data, i) ==
    << deltas_data.January[i], deltas_data.February[i], deltas_data.March[i],
       deltas_data.April[i], deltas_data.May[i], deltas_data.June[i],
       deltas_data.July[i], deltas_data.August[i], deltas_data.September[i],
       deltas_data.October[i], deltas_data.November[i], deltas_data.December[i] >>

\* the lines of the figure are those of the first tiles, in the order of Tile,
\* each with the twelve months in calendar order and that tile's own values
LinesFollowTiles(fig, deltas_data) ==
    /\ Len(fig.curves) <= Len(deltas_data.Tile)
    /\ \A i \in DOMAIN fig.curves :
          /\ fig.curves[i].label = deltas_data.Tile[i]
          /\ fig.curves[i].x = <<1, 2, 3, 4, 5, 6, 7, 8, 9, 10, 11, 12>>
          /\ Len(fig.curves[i].y) = 12
          /\ fig.curves[i].y = ValuesAtPosition(deltas_data, i)

\* C13: for a Delta Collection of unique tile identifiers, plot_deltas_data
\* draws on one figure one line per entry of Tile, in the order of Tile, and
\* the line of the tile at position i has twelve points, January to December,
\* whose values are the i-th entries of the twelve month sequences; this holds
\* of the lines drawn so far while the call runs and of all of them once the
\* tile loop has ended.
C13_OneLinePerTileByPosition ==
    UniqueTiles(heap.dd)
    => /\ frame.fn = "plot_deltas_data"
          => /\ Len(frame.figs) = 1
             /\ Cardinality(Created(frame.trace, 1)) = 1
             /\ Last(figures) = frame.figs[1]
             /\ LinesFollowTiles(frame.figs[1], heap.dd)
             /\ Len(frame.figs[1].curves) = frame.i - 1
             /\ pc # "tile" => Len(frame.figs[1].curves) = Len(heap.dd.Tile)
       /\ \A n \in DOMAIN calls :
             calls[n].fn = "plot_deltas_data"
             => /\ Len(calls[n].figs) = 1
                /\ Cardinality(Created(calls[n].trace, 1)) = 1
                /\ LinesFollowTiles(calls[n].figs[1], heap.dd)
                /\ Len(calls[n].figs[1].curves) = Len(heap.dd.Tile)

\* C13 witness: the fixture's six tiles have been drawn, and the lines of the
\* first and second tiles differ
C13_Witness ==
    /\ calls # <<>>
    /\ Last(calls).fn = "plot_deltas_data"
    /\ Last(calls).raised = ""
    /\ UniqueTiles(heap.dd)
    /\ Len(heap.dd.Tile) = 6
    /\ Len(Last(calls).figs[1].curves) = 6
    /\ Last(calls).figs[1].curves[1].y # Last(calls).figs[1].curves[2].y
    /\ Last(calls).figs[1].curves[2].y[1] = 12

====
